---- MODULE Spec2Model ----
(***************************************************************************)
(* dsa::task_system (src/sequence.hpp, lines 468-900): a work-stealing     *)
(* pool of nthreads_ workers, one mutex-protected task_queue per worker,  *)
(* the atomic outstanding-work counter queued_, the plain dispatch        *)
(* counter current_index_ and the packed exited_ flags.                    *)
(*                                                                         *)
(* Every step of the model holds at most one access to shared memory: a   *)
(* mutex acquire, the body of a critical section up to the release, one   *)
(* atomic load / store / read-modify-write, one plain load or store, one  *)
(* condition-variable call.                                                *)
(***************************************************************************)
EXTENDS Integers, Sequences, FiniteSets, TLC

\* ---------------------------------------------------------------- bounds
MaxThreads == 2        \* the pool is constructed with 1..MaxThreads workers
NumSubmitters == 2     \* client threads that call push
MaxJobs == 2           \* tasks submitted over the pool's lifetime
MaxDone == 1           \* calls of done() by the owning thread
\* run's and push's scan loops make 10 * nthreads_ probes; the model makes
\* Attempts * nthreads_ of them
Attempts == 2

\* ------------------------------------------------------ program constants
NoJob == 0             \* task {}: a task that holds no callable

VARIABLES
    nthreads_,         \* std::size_t nthreads_
    tasks_,            \* task_queue::tasks_ of every queue
    mutex_,            \* task_queue::mutex_: the set of threads holding it
    cv_,               \* task_queue::cv_: the threads blocked in cv_.wait
    done_,             \* task_queue::done_
    exited_,           \* std::vector<bool> exited_: the workers whose bit is set
    current_index_,    \* std::size_t current_index_
    queued_,           \* std::atomic_size_t queued_
    pc, phase, k, p, word,          \* run (id): position, loop, k, p.second, loaded bits
    spc, idx, sk, st,               \* push: position, idx, k, the task t
    opc, oi, should_exit,           \* the owning thread: position, loop index, flag
    alive,                          \* the task_system object exists
    njobs, kind, fut, late,         \* the tasks made so far and their futures
    started, completed,             \* the order in which tasks began / ended running
    doneCalls, quiet                \* history of the owning thread's calls

poolVars == <<nthreads_, tasks_, mutex_, cv_, done_, exited_, current_index_, queued_>>
runVars == <<pc, phase, k, p, word>>
pushVars == <<spc, idx, sk, st>>
ownerVars == <<opc, oi, should_exit, alive, doneCalls, quiet>>
jobVars == <<njobs, kind, fut, late, started, completed>>
vars == <<poolVars, runVars, pushVars, ownerVars, jobVars>>

Workers == 0 .. (nthreads_ - 1)
Queues == 0 .. (nthreads_ - 1)
Submitters == (MaxThreads + 1) .. (MaxThreads + NumSubmitters)
Jobs == 1 .. MaxJobs

NoThread == {}         \* an unlocked std::mutex
Kinds == {"value", "throw", "empty", "spawn"}
OwnerIdle == {"idle", "did_done", "did_wtc"}

\* --------------------------------------------------------- faulty variants
\* Each of these is one of the operators below with a plausible fault; a
\* property is sensitive to an operator when it fails with the variant
pop_front_keeps(s) == s                      \* the front task is not removed
pop_front_clears(s) == <<>>                  \* the whole queue is dropped
emplace_at_front(s, t) == <<t>> \o s         \* the queue is a stack
invoke_swallows(kd) == "value"               \* a raised exception is lost
abandon_silently(f) == f                     \* no broken_promise is stored
must_wait_ignores_done(empty, dn) == FALSE   \* pop never blocks
fold_flag_any(acc, b) == acc \/ b            \* should_exit |= b
pop_back(s) == SubSeq(s, 1, Len(s) - 1)      \* the newest task is removed
fetch_add_lost(c) == c                       \* queued_++ has no effect
probe_own(i, n) == i % nthreads_             \* k is left out of the index
notify_one_lost(q) == UNCHANGED cv_          \* no thread is released
fetch_sub_twice(c) == c - 2                  \* queued_ -= 2
emplace_twice(s, t) == Append(Append(s, t), t)   \* the task is appended twice
probe_shifted(i, n) == (i + n + 1) % nthreads_   \* the index is off by one
emplace_nothing(s, t) == s                   \* the task is not stored
get_future_ready(kd) == "value"              \* the shared state is ready when made
work_left_above_one(c) == c # 0 /\ c # 1   \* one task is left behind
work_left_never(c) == FALSE                  \* queued_ is not looked at
unlock_never(q) == UNCHANGED mutex_          \* the mutex is not released
back(s) == s[Len(s)]                         \* the newest task is moved out
must_wait_while_done(empty, dn) == empty /\ dn   \* the test of done_ is inverted
set_done_store_only(q) == done_' = [x \in Queues |-> x = q]   \* the other latches are cleared

\* ------------------------------------------------------------------ task
\* std::queue<task>: front (), pop (), emplace ()
front(s) == Head(s)
pop_front(s) == Tail(s)
emplace(s, t) == Append(s, t)

\* task::operator bool: the task holds a task_model
holds_model(kd) == kd # "empty"

\* task_model::invoke_: the packaged_task runs the callable and stores its
\* return value, or the exception it raised, in the shared state
invoke_(kd) == IF kd = "throw" THEN "error" ELSE "value"

\* make_task: a task built through make_task has a future; a default
\* constructed task {} has none
get_future(kd) == IF holds_model(kd) THEN "pending" ELSE "none"

\* ~packaged_task of a task that never ran: the future gets broken_promise
abandon(f) == IF f = "pending" THEN "broken" ELSE f

\* queued_++ and queued_-- (a negative value stands for the wrapped size_t)
fetch_add(c) == c + 1
fetch_sub(c) == c - 1

\* pop: while (this->tasks_.empty () && !this->done_)
must_wait(empty, dn) == empty /\ ~dn

\* finish: while (this->queued_)
work_left(c) == c # 0

\* wait_to_completion: should_exit &= b
fold_flag(acc, b) == acc /\ b

\* queues_ [(id + k) % nthreads_]
probe(i, n) == (i + n) % nthreads_

\* std::terminate: an exception left a thread's function; the process ends
terminate ==
    /\ pc' = [w \in Workers |-> "aborted"]
    /\ spc' = [t \in Submitters |-> "aborted"]
    /\ opc' = "aborted"

\* ------------------------------------------------------------- task_queue
lock(q, t) == mutex_' = [mutex_ EXCEPT ![q] = {t}]
unlock(q) == mutex_' = [mutex_ EXCEPT ![q] = NoThread]

\* cv_.notify_one (): one of the blocked threads, if any, is released
notify_one(q) ==
    IF cv_[q] = {} THEN UNCHANGED cv_
    ELSE \E w \in cv_[q] : cv_' = [cv_ EXCEPT ![q] = @ \ {w}]

\* cv_.notify_all ()
notify_all(q) == cv_' = [cv_ EXCEPT ![q] = {}]

\* ---------------------------------------------------------- run (id)
\* the next iteration of the for loop a try_pop was made in: the scan loop
\* has 10 * nthreads_ probes and falls through to the blocking pop, the
\* loop after finish: has nthreads_ probes and yields to the while test
next_probe(w) ==
    IF phase[w] = "drain"
    THEN IF k[w] + 1 < nthreads_
         THEN /\ k' = [k EXCEPT ![w] = @ + 1]
              /\ pc' = [pc EXCEPT ![w] = "try_pop"]
              /\ UNCHANGED phase
         ELSE /\ k' = [k EXCEPT ![w] = 0]
              /\ pc' = [pc EXCEPT ![w] = "finish"]
              /\ UNCHANGED phase
    ELSE IF k[w] + 1 < Attempts * nthreads_
         THEN /\ k' = [k EXCEPT ![w] = @ + 1]
              /\ pc' = [pc EXCEPT ![w] = "try_pop"]
              /\ UNCHANGED phase
         ELSE /\ k' = [k EXCEPT ![w] = 0]
              /\ pc' = [pc EXCEPT ![w] = "pop_lock"]
              /\ phase' = [phase EXCEPT ![w] = "pop"]

\* try_pop: the try_to_lock; without the lock it returns (false, task {})
try_pop_lock(w) ==
    /\ pc[w] = "try_pop"
    /\ LET q == probe(w, k[w]) IN
       IF mutex_[q] = NoThread
       THEN /\ lock(q, w)
            /\ pc' = [pc EXCEPT ![w] = "try_pop_cs"]
            /\ UNCHANGED <<phase, k>>
       ELSE /\ next_probe(w)
            /\ UNCHANGED mutex_
    /\ UNCHANGED <<nthreads_, tasks_, cv_, done_, exited_, current_index_, queued_>>
    /\ UNCHANGED <<p, word, pushVars, ownerVars, jobVars>>

\* try_pop with the lock held: (false, task {}) of an empty queue, else the
\* front task is moved out and popped; the lock is released on return
try_pop_cs(w) ==
    /\ pc[w] = "try_pop_cs"
    /\ LET q == probe(w, k[w]) IN
       /\ unlock(q)
       /\ IF tasks_[q] = <<>>
          THEN /\ next_probe(w)
               /\ UNCHANGED <<tasks_, p>>
          ELSE /\ p' = [p EXCEPT ![w] = front(tasks_[q])]
               /\ tasks_' = [tasks_ EXCEPT ![q] = pop_front(@)]
               /\ pc' = [pc EXCEPT ![w] = "dec"]
               /\ UNCHANGED <<phase, k>>
    /\ UNCHANGED <<nthreads_, cv_, done_, exited_, current_index_, queued_>>
    /\ UNCHANGED <<word, pushVars, ownerVars>>
    /\ UNCHANGED jobVars

\* this->queued_--, after a successful try_pop or pop
run_dec(w) ==
    /\ pc[w] = "dec"
    /\ queued_' = fetch_sub(queued_)
    /\ pc' = [pc EXCEPT ![w] = "call"]
    /\ UNCHANGED <<nthreads_, tasks_, mutex_, cv_, done_, exited_, current_index_>>
    /\ UNCHANGED <<phase, k, p, word, pushVars, ownerVars, jobVars>>

\* p.second (): task::operator() throws std::logic_error for a task without
\* a model, and nothing in run catches it; otherwise invoke_ starts
run_call(w) ==
    /\ pc[w] = "call"
    /\ IF holds_model(kind[p[w]])
       THEN /\ pc' = [pc EXCEPT ![w] = "running"]
            /\ started' = Append(started, p[w])
            /\ UNCHANGED <<spc, opc>>
       ELSE /\ terminate
            /\ UNCHANGED started
    /\ UNCHANGED <<poolVars, phase, k, p, word, idx, sk, st>>
    /\ UNCHANGED <<oi, should_exit, alive, doneCalls, quiet>>
    /\ UNCHANGED <<njobs, kind, fut, late, completed>>

\* the callable returns or raises: the packaged_task fills the shared state
\* and p.second () returns normally; run continues its loop
run_return(w) ==
    /\ pc[w] = "running"
    /\ fut' = [fut EXCEPT ![p[w]] = invoke_(kind[p[w]])]
    /\ completed' = Append(completed, p[w])
    /\ p' = [p EXCEPT ![w] = NoJob]
    /\ IF phase[w] = "drain"
       THEN next_probe(w)
       ELSE /\ pc' = [pc EXCEPT ![w] = "try_pop"]
            /\ phase' = [phase EXCEPT ![w] = "scan"]
            /\ k' = [k EXCEPT ![w] = 0]
    /\ UNCHANGED <<poolVars, word, pushVars, ownerVars>>
    /\ UNCHANGED <<njobs, kind, late, started>>

\* pop: std::unique_lock lock (mutex_) blocks until the mutex is free
pop_lock(w) ==
    /\ pc[w] = "pop_lock"
    /\ mutex_[w] = NoThread
    /\ lock(w, w)
    /\ pc' = [pc EXCEPT ![w] = "pop_cs"]
    /\ UNCHANGED <<nthreads_, tasks_, cv_, done_, exited_, current_index_, queued_>>
    /\ UNCHANGED <<phase, k, p, word, pushVars, ownerVars, jobVars>>

\* pop with the lock held: the test of the while loop, then either the call
\* of cv_.wait is decided, or (false, task {}) is returned, or the front
\* task is moved out and popped
pop_cs(w) ==
    /\ pc[w] = "pop_cs"
    /\ IF must_wait(tasks_[w] = <<>>, done_[w])
       THEN /\ pc' = [pc EXCEPT ![w] = "cv_wait"]
            /\ UNCHANGED <<mutex_, tasks_, p, phase>>
       ELSE IF tasks_[w] = <<>>
       THEN /\ unlock(w)
            /\ pc' = [pc EXCEPT ![w] = "finish"]
            /\ phase' = [phase EXCEPT ![w] = "drain"]
            /\ UNCHANGED <<tasks_, p>>
       ELSE /\ unlock(w)
            /\ p' = [p EXCEPT ![w] = front(tasks_[w])]
            /\ tasks_' = [tasks_ EXCEPT ![w] = pop_front(@)]
            /\ pc' = [pc EXCEPT ![w] = "dec"]
            /\ UNCHANGED phase
    /\ UNCHANGED <<nthreads_, cv_, done_, exited_, current_index_, queued_>>
    /\ UNCHANGED <<k, word, pushVars, ownerVars>>
    /\ UNCHANGED jobVars

\* cv_.wait (lock): releases the mutex and blocks, atomically
pop_wait(w) ==
    /\ pc[w] = "cv_wait"
    /\ unlock(w)
    /\ cv_' = [cv_ EXCEPT ![w] = @ \cup {w}]
    /\ pc' = [pc EXCEPT ![w] = "blocked"]
    /\ UNCHANGED <<nthreads_, tasks_, done_, exited_, current_index_, queued_>>
    /\ UNCHANGED <<phase, k, p, word, pushVars, ownerVars, jobVars>>

\* cv_.wait returns: the thread was released by a notify and has the mutex
\* again; the while loop tests its condition again
pop_wake(w) ==
    /\ pc[w] = "blocked"
    /\ w \notin cv_[w]
    /\ mutex_[w] = NoThread
    /\ lock(w, w)
    /\ pc' = [pc EXCEPT ![w] = "pop_cs"]
    /\ UNCHANGED <<nthreads_, tasks_, cv_, done_, exited_, current_index_, queued_>>
    /\ UNCHANGED <<phase, k, p, word, pushVars, ownerVars, jobVars>>

\* a spurious wake-up, which std::condition_variable::wait allows
spurious_wake(w) ==
    /\ pc[w] = "blocked"
    /\ w \in cv_[w]
    /\ cv_' = [cv_ EXCEPT ![w] = @ \ {w}]
    /\ UNCHANGED <<nthreads_, tasks_, mutex_, done_, exited_, current_index_, queued_>>
    /\ UNCHANGED <<runVars, pushVars, ownerVars, jobVars>>

\* finish: while (this->queued_)
run_finish(w) ==
    /\ pc[w] = "finish"
    /\ IF work_left(queued_)
       THEN pc' = [pc EXCEPT ![w] = "try_pop"]
       ELSE pc' = [pc EXCEPT ![w] = "exit_load"]
    /\ UNCHANGED <<poolVars, phase, k, p, word, pushVars, ownerVars, jobVars>>

\* this->exited_ [id] = true: std::vector<bool> packs the flags into one
\* word, which the assignment loads, ...
run_exit_load(w) ==
    /\ pc[w] = "exit_load"
    /\ word' = [word EXCEPT ![w] = exited_]
    /\ pc' = [pc EXCEPT ![w] = "exit_store"]
    /\ UNCHANGED <<poolVars, phase, k, p, pushVars, ownerVars, jobVars>>

\* ... and stores back with the bit of id set; run returns
run_exit_store(w) ==
    /\ pc[w] = "exit_store"
    /\ exited_' = word[w] \cup {w}
    /\ word' = [word EXCEPT ![w] = {}]
    /\ pc' = [pc EXCEPT ![w] = "exited"]
    /\ UNCHANGED <<nthreads_, tasks_, mutex_, cv_, done_, current_index_, queued_>>
    /\ UNCHANGED <<phase, k, p, pushVars, ownerVars, jobVars>>

\* ------------------------------------------------------------------ push
\* push (F, Args...) makes the task and its future with make_task; push
\* (task &&) is handed a task, which may be an empty one. Both then read
\* current_index_ for the post-increment
push_call(t, kinds) ==
    /\ spc[t] = "idle"
    /\ alive
    /\ njobs < MaxJobs
    /\ \E kd \in kinds :
        /\ kind' = [kind EXCEPT ![njobs + 1] = kd]
        /\ fut' = [fut EXCEPT ![njobs + 1] = get_future(kd)]
    /\ njobs' = njobs + 1
    /\ late' = [late EXCEPT ![njobs + 1] = (doneCalls > 0)]
    /\ st' = [st EXCEPT ![t] = njobs + 1]
    /\ idx' = [idx EXCEPT ![t] = current_index_]
    /\ spc' = [spc EXCEPT ![t] = "index_store"]
    /\ quiet' = FALSE
    /\ UNCHANGED <<poolVars, runVars, sk, opc, oi, should_exit, alive, doneCalls>>
    /\ UNCHANGED <<started, completed>>

\* current_index_++: the store of the incremented value
push_index_store(t) ==
    /\ spc[t] = "index_store"
    /\ current_index_' = idx[t] + 1
    /\ spc' = [spc EXCEPT ![t] = "inc"]
    /\ UNCHANGED <<nthreads_, tasks_, mutex_, cv_, done_, exited_, queued_>>
    /\ UNCHANGED <<runVars, idx, sk, st, ownerVars, jobVars>>

\* this->queued_++ before the try_push of probe k
push_inc(t) ==
    /\ spc[t] = "inc"
    /\ queued_' = fetch_add(queued_)
    /\ spc' = [spc EXCEPT ![t] = "try_push"]
    /\ UNCHANGED <<nthreads_, tasks_, mutex_, cv_, done_, exited_, current_index_>>
    /\ UNCHANGED <<runVars, idx, sk, st, ownerVars, jobVars>>

\* try_push: the try_to_lock; without the lock it returns false
try_push_lock(t) ==
    /\ spc[t] = "try_push"
    /\ LET q == probe(idx[t], sk[t]) IN
       IF mutex_[q] = NoThread
       THEN /\ lock(q, t)
            /\ spc' = [spc EXCEPT ![t] = "try_push_cs"]
       ELSE /\ spc' = [spc EXCEPT ![t] = "revert"]
            /\ UNCHANGED mutex_
    /\ UNCHANGED <<nthreads_, tasks_, cv_, done_, exited_, current_index_, queued_>>
    /\ UNCHANGED <<runVars, idx, sk, st, ownerVars, jobVars>>

\* try_push with the lock held: tasks_.emplace (std::move (t)), then the
\* lock's scope ends
try_push_cs(t) ==
    /\ spc[t] = "try_push_cs"
    /\ LET q == probe(idx[t], sk[t]) IN
       /\ tasks_' = [tasks_ EXCEPT ![q] = emplace(@, st[t])]
       /\ unlock(q)
    /\ st' = [st EXCEPT ![t] = NoJob]
    /\ spc' = [spc EXCEPT ![t] = "notify"]
    /\ UNCHANGED <<nthreads_, cv_, done_, exited_, current_index_, queued_>>
    /\ UNCHANGED <<runVars, idx, sk, ownerVars, jobVars>>

\* this->queued_-- after a failed try_push, and the loop's ++k; after the
\* last probe the loop ends
push_revert(t) ==
    /\ spc[t] = "revert"
    /\ queued_' = fetch_sub(queued_)
    /\ sk' = [sk EXCEPT ![t] = @ + 1]
    /\ IF sk[t] + 1 < Attempts * nthreads_
       THEN spc' = [spc EXCEPT ![t] = "inc"]
       ELSE spc' = [spc EXCEPT ![t] = "final_inc"]
    /\ UNCHANGED <<nthreads_, tasks_, mutex_, cv_, done_, exited_, current_index_>>
    /\ UNCHANGED <<runVars, idx, st, ownerVars, jobVars>>

\* this->queued_++ before the blocking push on queues_ [idx % nthreads_]
push_final_inc(t) ==
    /\ spc[t] = "final_inc"
    /\ queued_' = fetch_add(queued_)
    /\ spc' = [spc EXCEPT ![t] = "push_lock"]
    /\ UNCHANGED <<nthreads_, tasks_, mutex_, cv_, done_, exited_, current_index_>>
    /\ UNCHANGED <<runVars, idx, sk, st, ownerVars, jobVars>>

\* task_queue::push: std::unique_lock lock (mutex_) blocks until it is free
push_lock(t) ==
    /\ spc[t] = "push_lock"
    /\ mutex_[probe(idx[t], 0)] = NoThread
    /\ lock(probe(idx[t], 0), t)
    /\ spc' = [spc EXCEPT ![t] = "push_cs"]
    /\ UNCHANGED <<nthreads_, tasks_, cv_, done_, exited_, current_index_, queued_>>
    /\ UNCHANGED <<runVars, idx, sk, st, ownerVars, jobVars>>

\* task_queue::push with the lock held
push_cs(t) ==
    /\ spc[t] = "push_cs"
    /\ LET q == probe(idx[t], 0) IN
       /\ tasks_' = [tasks_ EXCEPT ![q] = emplace(@, st[t])]
       /\ unlock(q)
    /\ st' = [st EXCEPT ![t] = NoJob]
    /\ spc' = [spc EXCEPT ![t] = "notify"]
    /\ UNCHANGED <<nthreads_, cv_, done_, exited_, current_index_, queued_>>
    /\ UNCHANGED <<runVars, idx, sk, ownerVars, jobVars>>

\* this->cv_.notify_one () of try_push and of task_queue::push, after the
\* lock is released; push returns
push_notify(t) ==
    /\ spc[t] = "notify"
    /\ notify_one(probe(idx[t], sk[t]))
    /\ spc' = [spc EXCEPT ![t] = "idle"]
    /\ idx' = [idx EXCEPT ![t] = 0]
    /\ sk' = [sk EXCEPT ![t] = 0]
    /\ UNCHANGED st
    /\ UNCHANGED <<nthreads_, tasks_, mutex_, done_, exited_, current_index_, queued_>>
    /\ UNCHANGED <<runVars, ownerVars, jobVars>>

\* ------------------------------------------------- done, wait_to_completion
\* set_done: this->done_.store (true)
set_done_store(q) == done_' = [done_ EXCEPT ![q] = TRUE]

\* done (): the first queue's done_.store (true)
done_call ==
    /\ opc \in OwnerIdle
    /\ alive
    /\ doneCalls < MaxDone
    /\ doneCalls' = doneCalls + 1
    /\ set_done_store(0)
    /\ opc' = "done_notify"
    /\ oi' = 0
    /\ UNCHANGED <<nthreads_, tasks_, mutex_, cv_, exited_, current_index_, queued_>>
    /\ UNCHANGED <<runVars, pushVars, should_exit, alive, quiet, jobVars>>

\* set_done: this->cv_.notify_all (); then the next queue of done's loop.
\* done () returns to its caller, which is the client or join ()
done_notify ==
    /\ opc \in {"done_notify", "join_notify"}
    /\ notify_all(oi)
    /\ IF oi + 1 < nthreads_
       THEN /\ opc' = IF opc = "done_notify" THEN "done_store" ELSE "join_store"
            /\ oi' = oi + 1
       ELSE /\ opc' = IF opc = "done_notify" THEN "did_done" ELSE "join"
            /\ oi' = 0
    /\ UNCHANGED <<nthreads_, tasks_, mutex_, done_, exited_, current_index_, queued_>>
    /\ UNCHANGED <<runVars, pushVars, should_exit, alive, doneCalls, quiet, jobVars>>

done_store ==
    /\ opc \in {"done_store", "join_store"}
    /\ set_done_store(oi)
    /\ opc' = IF opc = "done_store" THEN "done_notify" ELSE "join_notify"
    /\ UNCHANGED <<nthreads_, tasks_, mutex_, cv_, exited_, current_index_, queued_>>
    /\ UNCHANGED <<runVars, pushVars, oi, should_exit, alive, doneCalls, quiet, jobVars>>

\* wait_to_completion: if (this->queued_) continue; else the flags are read
wtc_load ==
    /\ IF queued_ # 0
       THEN /\ opc' = "wtc"
            /\ UNCHANGED <<oi, should_exit>>
       ELSE /\ opc' = "wtc_flags"
            /\ oi' = 0
            /\ should_exit' = TRUE
    /\ UNCHANGED <<poolVars, runVars, pushVars, alive, doneCalls, jobVars>>

wtc_call ==
    /\ opc \in {"idle", "did_done"}
    /\ alive
    /\ quiet' = \A t \in Submitters : spc[t] = "idle"
    /\ wtc_load

wtc_again ==
    /\ opc = "wtc"
    /\ UNCHANGED quiet
    /\ wtc_load

\* for (auto b : this->exited_) should_exit &= b; if (should_exit) return
wtc_flag ==
    /\ opc = "wtc_flags"
    /\ should_exit' = fold_flag(should_exit, oi \in exited_)
    /\ IF oi + 1 < nthreads_
       THEN /\ oi' = oi + 1
            /\ UNCHANGED opc
       ELSE /\ oi' = 0
            /\ opc' = IF should_exit' THEN "did_wtc" ELSE "wtc"
    /\ UNCHANGED <<poolVars, runVars, pushVars, alive, doneCalls, quiet, jobVars>>

\* ------------------------------------------------------------ destruction
\* the task j is an element of some queue
InQueue(j) == \E q \in Queues : \E i \in 1 .. Len(tasks_[q]) : tasks_[q][i] = j

\* ~task_system (): join () calls done (), here its first store. The object's
\* lifetime has ended: no other thread may call a member from now on
dtor_call ==
    /\ opc \in OwnerIdle
    /\ alive
    /\ \A t \in Submitters : spc[t] = "idle"
    /\ alive' = FALSE
    /\ set_done_store(0)
    /\ opc' = "join_notify"
    /\ oi' = 0
    /\ UNCHANGED <<nthreads_, tasks_, mutex_, cv_, exited_, current_index_, queued_>>
    /\ UNCHANGED <<runVars, pushVars, should_exit, doneCalls, quiet, jobVars>>

\* join: th.join () returns when the thread's run has returned
join_thread ==
    /\ opc = "join"
    /\ pc[oi] = "exited"
    /\ IF oi + 1 < nthreads_
       THEN /\ oi' = oi + 1
            /\ UNCHANGED opc
       ELSE /\ oi' = 0
            /\ opc' = "members"
    /\ UNCHANGED <<poolVars, runVars, pushVars, should_exit, alive, doneCalls, quiet, jobVars>>

\* the members are destroyed: every task left in queues_ is destroyed with
\* its packaged_task
destroy_members ==
    /\ opc = "members"
    /\ fut' = [j \in Jobs |-> IF InQueue(j) THEN abandon(fut[j]) ELSE fut[j]]
    /\ tasks_' = [q \in Queues |-> <<>>]
    /\ opc' = "destroyed"
    /\ UNCHANGED <<nthreads_, mutex_, cv_, done_, exited_, current_index_, queued_>>
    /\ UNCHANGED <<runVars, pushVars, oi, should_exit, alive, doneCalls, quiet>>
    /\ UNCHANGED <<njobs, kind, late, started, completed>>

\* ------------------------------------------------------- done (), repeated
\* a further call of done () after an earlier call has returned: the first
\* queue's done_.store (true)
done_again_call ==
    /\ opc = "did_done"
    /\ alive
    /\ set_done_store(0)
    /\ opc' = "again_notify"
    /\ oi' = 0
    /\ UNCHANGED <<nthreads_, tasks_, mutex_, cv_, exited_, current_index_, queued_>>
    /\ UNCHANGED <<runVars, pushVars, should_exit, alive, doneCalls, quiet, jobVars>>

\* set_done's cv_.notify_all (), then the next queue or the return
done_again_notify ==
    /\ opc = "again_notify"
    /\ notify_all(oi)
    /\ IF oi + 1 < nthreads_
       THEN /\ opc' = "again_store"
            /\ oi' = oi + 1
       ELSE /\ opc' = "did_done"
            /\ oi' = 0
    /\ UNCHANGED <<nthreads_, tasks_, mutex_, done_, exited_, current_index_, queued_>>
    /\ UNCHANGED <<runVars, pushVars, should_exit, alive, doneCalls, quiet, jobVars>>

done_again_store ==
    /\ opc = "again_store"
    /\ set_done_store(oi)
    /\ opc' = "again_notify"
    /\ UNCHANGED <<nthreads_, tasks_, mutex_, cv_, exited_, current_index_, queued_>>
    /\ UNCHANGED <<runVars, pushVars, oi, should_exit, alive, doneCalls, quiet, jobVars>>

done_again == done_again_notify \/ done_again_store

\* ------------------------------------------------------------------ reset
\* reset (): join () calls done (), here its first store
reset_call ==
    /\ opc \in OwnerIdle
    /\ alive
    /\ set_done_store(0)
    /\ opc' = "reset_notify"
    /\ oi' = 0
    /\ UNCHANGED <<nthreads_, tasks_, mutex_, cv_, exited_, current_index_, queued_>>
    /\ UNCHANGED <<runVars, pushVars, should_exit, alive, doneCalls, quiet, jobVars>>

\* set_done's cv_.notify_all (), then the next queue of done's loop or the
\* loop of join
reset_notify ==
    /\ opc = "reset_notify"
    /\ notify_all(oi)
    /\ IF oi + 1 < nthreads_
       THEN /\ opc' = "reset_store"
            /\ oi' = oi + 1
       ELSE /\ opc' = "reset_join"
            /\ oi' = 0
    /\ UNCHANGED <<nthreads_, tasks_, mutex_, done_, exited_, current_index_, queued_>>
    /\ UNCHANGED <<runVars, pushVars, should_exit, alive, doneCalls, quiet, jobVars>>

reset_store ==
    /\ opc = "reset_store"
    /\ set_done_store(oi)
    /\ opc' = "reset_notify"
    /\ UNCHANGED <<nthreads_, tasks_, mutex_, cv_, exited_, current_index_, queued_>>
    /\ UNCHANGED <<runVars, pushVars, oi, should_exit, alive, doneCalls, quiet, jobVars>>

\* join: th.join () returns when the thread's run has returned
reset_join ==
    /\ opc = "reset_join"
    /\ pc[oi] = "exited"
    /\ IF oi + 1 < nthreads_
       THEN /\ oi' = oi + 1
            /\ UNCHANGED opc
       ELSE /\ oi' = 0
            /\ opc' = "reset_clear"
    /\ UNCHANGED <<poolVars, runVars, pushVars, should_exit, alive, doneCalls, quiet, jobVars>>

\* threads_.clear (); queues_.clear (), which destroys the tasks left in the
\* queues; queued_.store (0); nthreads_ new queues are emplaced, each empty
\* with done_ false. No thread but the caller exists here. exited_ is not
\* assigned anywhere in reset. The count of done () calls starts again for
\* the new queues
reset_clear ==
    /\ opc = "reset_clear"
    /\ fut' = [j \in Jobs |-> IF InQueue(j) THEN abandon(fut[j]) ELSE fut[j]]
    /\ tasks_' = [q \in Queues |-> <<>>]
    /\ queued_' = 0
    /\ done_' = [q \in Queues |-> FALSE]
    /\ mutex_' = [q \in Queues |-> NoThread]
    /\ cv_' = [q \in Queues |-> {}]
    /\ doneCalls' = 0
    /\ opc' = "reset_spawn"
    /\ oi' = 0
    /\ UNCHANGED <<nthreads_, exited_, current_index_>>
    /\ UNCHANGED <<runVars, pushVars, should_exit, alive, quiet>>
    /\ UNCHANGED <<njobs, kind, late, started, completed>>

\* threads_.emplace_back (&task_system::run, this, th): thread th starts at
\* the top of run; after the last one reset returns
reset_spawn ==
    /\ opc = "reset_spawn"
    /\ pc' = [pc EXCEPT ![oi] = "try_pop"]
    /\ phase' = [phase EXCEPT ![oi] = "scan"]
    /\ k' = [k EXCEPT ![oi] = 0]
    /\ p' = [p EXCEPT ![oi] = NoJob]
    /\ word' = [word EXCEPT ![oi] = {}]
    /\ IF oi + 1 < nthreads_
       THEN /\ oi' = oi + 1
            /\ UNCHANGED opc
       ELSE /\ oi' = 0
            /\ opc' = "idle"
    /\ UNCHANGED <<poolVars, pushVars, should_exit, alive, doneCalls, quiet, jobVars>>

\* ------------------------------------------------------------ construction
\* task_system (nthreads): nthreads empty queues, exited_ all false, the
\* counters zero, and nthreads threads at the top of run
Init ==
    /\ nthreads_ \in 1 .. MaxThreads
    /\ tasks_ = [q \in Queues |-> <<>>]
    /\ mutex_ = [q \in Queues |-> NoThread]
    /\ cv_ = [q \in Queues |-> {}]
    /\ done_ = [q \in Queues |-> FALSE]
    /\ exited_ = {}
    /\ current_index_ = 0
    /\ queued_ = 0
    /\ pc = [w \in Workers |-> "try_pop"]
    /\ phase = [w \in Workers |-> "scan"]
    /\ k = [w \in Workers |-> 0]
    /\ p = [w \in Workers |-> NoJob]
    /\ word = [w \in Workers |-> {}]
    /\ spc = [t \in Submitters |-> "idle"]
    /\ idx = [t \in Submitters |-> 0]
    /\ sk = [t \in Submitters |-> 0]
    /\ st = [t \in Submitters |-> NoJob]
    /\ opc = "idle"
    /\ oi = 0
    /\ should_exit = FALSE
    /\ alive = TRUE
    /\ njobs = 0
    /\ kind = [j \in Jobs |-> "value"]
    /\ fut = [j \in Jobs |-> "none"]
    /\ late = [j \in Jobs |-> FALSE]
    /\ started = <<>>
    /\ completed = <<>>
    /\ doneCalls = 0
    /\ quiet = TRUE

run(w) ==
    \/ try_pop_lock(w)
    \/ try_pop_cs(w)
    \/ run_dec(w)
    \/ run_call(w)
    \/ run_return(w)
    \/ pop_lock(w)
    \/ pop_cs(w)
    \/ pop_wait(w)
    \/ pop_wake(w)
    \/ run_finish(w)
    \/ run_exit_load(w)
    \/ run_exit_store(w)

push(t) ==
    \/ push_index_store(t)
    \/ push_inc(t)
    \/ try_push_lock(t)
    \/ try_push_cs(t)
    \/ push_revert(t)
    \/ push_final_inc(t)
    \/ push_lock(t)
    \/ push_cs(t)
    \/ push_notify(t)

done == done_notify \/ done_store

wait_to_completion == wtc_again \/ wtc_flag

destructor == join_thread \/ destroy_members

reset == reset_notify \/ reset_store \/ reset_join \/ reset_clear \/ reset_spawn

\* the first of the threads that call push
Main == MaxThreads + 1

\* the threads that call push have returned from it
Joined == \A t \in Submitters : spc[t] = "idle"

\* ---------------------------------------------------------- specifications
\* The client of perform_search: one thread pushes tasks, and then done ()
\* and wait_to_completion () are called, in this order
Next ==
    \/ \E w \in Workers : run(w)
    \/ \E w \in Workers : spurious_wake(w)
    \/ doneCalls = 0 /\ push_call(Main, {"value", "throw"})
    \/ push(Main)
    \/ Joined /\ done_call
    \/ done
    \/ opc = "did_done" /\ wtc_call
    \/ wait_to_completion

Spec == Init /\ [][Next]_vars

\* The same client with tasks whose callables all return
NextPlain ==
    \/ \E w \in Workers : run(w)
    \/ \E w \in Workers : spurious_wake(w)
    \/ doneCalls = 0 /\ push_call(Main, {"value"})
    \/ push(Main)
    \/ Joined /\ done_call
    \/ done
    \/ opc = "did_done" /\ wtc_call
    \/ wait_to_completion

\* The same client with several threads that push concurrently
NextMulti ==
    \/ \E w \in Workers : run(w)
    \/ \E w \in Workers : spurious_wake(w)
    \/ \E t \in Submitters : doneCalls = 0 /\ push_call(t, {"value"})
    \/ \E t \in Submitters : push(t)
    \/ Joined /\ done_call
    \/ done
    \/ opc = "did_done" /\ wtc_call
    \/ wait_to_completion

SpecMulti == Init /\ [][NextMulti]_vars

\* A client that calls push, done and wait_to_completion in any order
NextAny ==
    \/ \E w \in Workers : run(w)
    \/ \E w \in Workers : spurious_wake(w)
    \/ push_call(Main, {"value"})
    \/ push(Main)
    \/ done_call
    \/ done
    \/ wtc_call
    \/ wait_to_completion

SpecAny == Init /\ [][NextAny]_vars

\* A client that pushes a task made empty, through push (task &&)
NextBad ==
    \/ \E w \in Workers : run(w)
    \/ \E w \in Workers : spurious_wake(w)
    \/ doneCalls = 0 /\ push_call(Main, {"value", "empty"})
    \/ push(Main)
    \/ Joined /\ done_call
    \/ done

SpecBad == Init /\ [][NextBad]_vars

\* A client that pushes, calls done in any order, and destroys the pool
NextDtor ==
    \/ \E w \in Workers : run(w)
    \/ \E w \in Workers : spurious_wake(w)
    \/ push_call(Main, {"value"})
    \/ push(Main)
    \/ done_call
    \/ done
    \/ dtor_call
    \/ destructor

SpecDtor == Init /\ [][NextDtor]_vars

\* A client that runs the pool's cycle again and again: push, done (),
\* wait_to_completion (), reset ()
NextReset ==
    \/ \E w \in Workers : run(w)
    \/ \E w \in Workers : spurious_wake(w)
    \/ doneCalls = 0 /\ opc = "idle" /\ push_call(Main, {"value"})
    \/ push(Main)
    \/ Joined /\ done_call
    \/ done
    \/ opc = "did_done" /\ wtc_call
    \/ wait_to_completion
    \/ opc = "did_wtc" /\ reset_call
    \/ reset

SpecReset == Init /\ [][NextReset]_vars

\* A client that pushes and then calls done () several times
NextTwice ==
    \/ \E w \in Workers : run(w)
    \/ \E w \in Workers : spurious_wake(w)
    \/ doneCalls = 0 /\ push_call(Main, {"value"})
    \/ push(Main)
    \/ Joined /\ done_call
    \/ done
    \/ done_again_call
    \/ done_again

SpecTwice == Init /\ [][NextTwice]_vars

\* Scheduling: a thread that can take a step eventually takes one. Nothing
\* obliges the client to call anything, and a spurious wake-up need not
\* happen
Fairness ==
    /\ \A w \in 0 .. (MaxThreads - 1) : WF_vars(w \in Workers /\ run(w))
    /\ \A t \in Submitters : WF_vars(push(t))
    /\ WF_vars(done)
    /\ WF_vars(wait_to_completion)

FairSpec == Init /\ [][NextPlain]_vars /\ Fairness

FairAny == Init /\ [][NextAny]_vars /\ Fairness

\* Recursive submission: the callable of the first task calls push itself.
\* The thread Inner stands for that call: its steps are taken by the worker
\* that runs the task, and the callable returns after its push has returned
Inner == MaxThreads + 2

InBody(w) == pc[w] = "running" /\ kind[p[w]] = "spawn"

body_returns(w) == InBody(w) => njobs = MaxJobs /\ spc[Inner] = "idle"

body_push == (\E w \in Workers : InBody(w)) /\ njobs >= 1 /\ push_call(Inner, {"value"})

\* A client that pushes the spawning task and may call done () at any time
\* after that push has returned
NextSpawn ==
    \/ \E w \in Workers : body_returns(w) /\ run(w)
    \/ \E w \in Workers : spurious_wake(w)
    \/ njobs = 0 /\ push_call(Main, {"spawn"})
    \/ push(Main)
    \/ body_push
    \/ push(Inner)
    \/ njobs >= 1 /\ spc[Main] = "idle" /\ done_call
    \/ done

\* Scheduling: as in Fairness; moreover a thread that waits for a mutex in
\* lock () gets it when the mutex is free again and again (the other
\* threads hold it for the few instructions of try_pop only)
FairSpawn ==
    /\ Init
    /\ [][NextSpawn]_vars
    /\ \A w \in 0 .. (MaxThreads - 1) : SF_vars(w \in Workers /\ body_returns(w) /\ run(w))
    /\ WF_vars(body_push)
    /\ \A t \in Submitters : SF_vars(push(t))
    /\ WF_vars(done)

\* ------------------------------------------------------------ properties
\* how often task j was invoked
runs(j) == Cardinality({i \in 1 .. Len(started) : started[i] = j})

\* task j ran to its end
ran(j) == \E i \in 1 .. Len(completed) : completed[i] = j

\* the task objects that hold j: elements of the queues, a worker's p.second,
\* the t of a thread inside push
copies(j) ==
    Cardinality({<<q, i>> \in Queues \X (1 .. MaxJobs) :
                    i <= Len(tasks_[q]) /\ tasks_[q][i] = j})
    + Cardinality({w \in Workers : p[w] = j})
    + Cardinality({t \in Submitters : st[t] = j})

InWait == opc \in {"wtc", "wtc_flags"}

\* C4: when wait_to_completion () has returned on a pool that no thread
\* pushed to since the call began, every worker's run has returned, every
\* task pushed has run to its end and its future is ready, every queue is
\* empty and queued_ is zero.
C4_WaitPostcondition ==
    (opc = "did_wtc" /\ quiet) =>
        /\ \A w \in Workers : pc[w] = "exited"
        /\ \A j \in 1 .. njobs : ran(j) /\ fut[j] \in {"value", "error"}
        /\ \A q \in Queues : tasks_[q] = <<>>
        /\ queued_ = 0

C4_Witness ==
    /\ opc = "did_wtc"
    /\ quiet
    /\ nthreads_ = 2
    /\ njobs = 2

\* C5: with several threads pushing concurrently, every task exists in
\* exactly one place until it has run (the t of its pusher, one slot of one
\* queue, the p of one worker), no task is invoked twice, and once done ()
\* and wait_to_completion () have returned every task pushed was invoked
\* exactly once.
C5_ExactlyOnce ==
    /\ \A j \in 1 .. njobs : copies(j) + (IF ran(j) THEN 1 ELSE 0) = 1
    /\ \A j \in Jobs : runs(j) <= 1
    /\ opc = "did_wtc" => \A j \in 1 .. njobs : runs(j) = 1 /\ ran(j)

\* two threads are inside push while one worker holds the mutex of a queue
\* inside try_pop and another worker is about to try_pop the same queue
C5_Witness ==
    /\ \A t \in Submitters : spc[t] \in {"inc", "try_push", "try_push_cs"}
    /\ \E w, v \in Workers :
        /\ w # v
        /\ pc[w] = "try_pop_cs"
        /\ pc[v] = "try_pop"
        /\ probe(w, k[w]) = probe(v, k[v])

\* C6: a task whose callable raised has the exception in its future and a
\* task whose callable returned has the value; no exception reaches run:
\* no worker is ended by one, and a worker that has invoked a task is back
\* in one of run's loops.
C6_FailureContained ==
    /\ \A w \in Workers : pc[w] # "aborted"
    /\ \A j \in 1 .. njobs :
        ran(j) => fut[j] = (IF kind[j] = "throw" THEN "error" ELSE "value")
    /\ \A j \in 1 .. njobs : ~ran(j) => fut[j] = "pending"

\* the only worker ran a task that raised and is now running the next task
C6_Witness ==
    /\ nthreads_ = 1
    /\ completed = <<1>>
    /\ kind[1] = "throw"
    /\ fut[1] = "error"
    /\ pc[0] = "running"
    /\ p[0] = 2

\* C7: a worker that invokes an empty task is not ended by the
\* std::logic_error: no thread of the pool is ever aborted.
C7_BadTaskContained == \A w \in Workers : pc[w] # "aborted"

\* C10: in a pool of one worker with one pushing thread, the tasks start
\* and end in the order in which they were pushed (the tasks are numbered
\* in that order).
C10_SingleWorkerFifo ==
    nthreads_ = 1 =>
        /\ \A i \in 1 .. Len(started) : started[i] = i
        /\ \A i \in 1 .. Len(completed) : completed[i] = i

\* the second task runs in the loop after finish:, the first one has run
C10_Witness ==
    /\ nthreads_ = 1
    /\ completed = <<1>>
    /\ pc[0] = "running"
    /\ phase[0] = "drain"
    /\ p[0] = 2

\* C1: once done () has been called, a task that is in a queue is
\* eventually invoked and runs to its end (every push returned before done
\* was called, every callable returns, every thread keeps being scheduled).
C1_DrainOnDone ==
    \A j \in Jobs : (doneCalls > 0 /\ InQueue(j)) ~> ran(j)

\* done () has returned while both tasks are still in the queues
C1_Witness ==
    /\ opc = "did_done"
    /\ nthreads_ = 2
    /\ \A j \in Jobs : InQueue(j)

\* C2: after done () has returned, every worker's run eventually returns.
C2_ShutdownTerminates ==
    (opc = "did_done") ~> (\A w \in Workers : pc[w] = "exited")

C8_LateSubmission ==
    \A j \in Jobs : (late[j] /\ fut[j] = "pending") ~> (fut[j] # "pending")

\* C9 (as stated): a task that is in a queue while the pool is being
\* destroyed stays there until it is abandoned: no worker pops it.
C9_QueuedAtDestructionNeverRuns ==
    [][\A j \in Jobs :
        (~alive /\ InQueue(j)) => (InQueue(j)' \/ fut'[j] = "broken")]_vars

\* C9 (amended): the destructor destroys the queues only after every
\* worker's run has returned; a future is given broken_promise only there,
\* and exactly for the tasks that were never invoked; after the destructor
\* no future of a pushed task is pending.
C9_Abandoned ==
    /\ opc \in {"members", "destroyed"} => \A w \in Workers : pc[w] = "exited"
    /\ \A j \in Jobs : fut[j] = "broken" => opc = "destroyed" /\ runs(j) = 0
    /\ opc = "destroyed" =>
        \A j \in 1 .. njobs :
            /\ fut[j] # "pending"
            /\ ran(j) <=> fut[j] # "broken"
            /\ ~InQueue(j)

\* the destructor has returned: the first task was in a queue when it began
\* and has run, the second one was pushed after the workers had returned
\* and was abandoned
C9_Witness ==
    /\ opc = "destroyed"
    /\ nthreads_ = 2
    /\ fut[1] = "value"
    /\ fut[2] = "broken"

\* the queue that the task in worker w's p was popped from
source(w) == probe(w, k[w])

\* C11 (as stated): of two tasks accepted by the same queue, the one that
\* was accepted first begins to run first, also when two workers popped them
\* (one pushing thread: the tasks are numbered in the order of acceptance).
C11_FifoStart ==
    \A w, v \in Workers :
        (/\ p[w] # NoJob
         /\ p[v] # NoJob
         /\ source(w) = source(v)
         /\ p[w] < p[v]
         /\ pc[v] = "running") => pc[w] = "running"

\* C11 (amended): the tasks leave a queue in the order in which it accepted
\* them: a step changes a queue only by appending a task at its back, or by
\* moving its front task into the p of a worker that held none; the queue's
\* tasks stay in the order of acceptance.
C11_FifoPop ==
    [][\A q \in Queues :
        \/ tasks_'[q] = tasks_[q]
        \/ /\ \E t \in Submitters :
                 st[t] # NoJob /\ tasks_'[q] = Append(tasks_[q], st[t])
           /\ \A i \in 1 .. Len(tasks_[q]) : tasks_[q][i] < tasks_'[q][Len(tasks_'[q])]
        \/ /\ tasks_[q] # <<>>
           /\ tasks_'[q] = Tail(tasks_[q])
           /\ \E w \in Workers :
                 p[w] = NoJob /\ p'[w] = Head(tasks_[q]) /\ source(w) = q]_vars

\* two workers are running the two tasks that they popped from one queue
C11_Witness ==
    /\ nthreads_ = 2
    /\ p[0] # NoJob
    /\ p[1] # NoJob
    /\ source(0) = source(1)
    /\ pc[0] = "running"
    /\ pc[1] = "running"

\* the number of tasks in the queues of Q
RECURSIVE size(_)
size(Q) ==
    IF Q = {} THEN 0
    ELSE LET q == CHOOSE x \in Q : TRUE IN Len(tasks_[q]) + size(Q \ {q})

\* the threads inside push that have incremented queued_ for a try_push or
\* push that has not yet emplaced the task or been reverted
Speculating ==
    {t \in Submitters :
        spc[t] \in {"try_push", "try_push_cs", "revert", "push_lock", "push_cs"}}

\* the workers that have popped a task and not yet decremented queued_
Undecremented == {w \in Workers : pc[w] = "dec"}

\* C12 (as stated): in every state queued_ equals the number of tasks that
\* are in the queues.
C12_CounterEqualsQueued == queued_ = size(Queues)

\* C12 (amended): queued_ equals the number of tasks in the queues plus the
\* number of threads between push's queued_++ and its emplace or revert
\* plus the number of workers between a pop and run's queued_--; when no
\* thread is in either window the two numbers are equal.
C12_CounterExact ==
    queued_ = size(Queues) + Cardinality(Speculating) + Cardinality(Undecremented)

\* a pushing thread is about to revert a failed try_push and a worker has
\* popped a task and not yet decremented: the queues are empty, queued_ is 2
C12_Witness ==
    /\ \E t \in Submitters : spc[t] = "revert"
    /\ \E w \in Workers : pc[w] = "dec"
    /\ size(Queues) = 0
    /\ queued_ = 2

\* C13: when wait_to_completion () has returned, also the one called after a
\* reset (), every worker's run has returned and no task pushed is still in
\* a queue, in a worker's p or running.
C13_WaitAfterReset ==
    opc = "did_wtc" =>
        /\ \A w \in Workers : pc[w] = "exited"
        /\ \A j \in 1 .. njobs : ran(j) \/ fut[j] = "broken"

C15_ProgressWithoutDone ==
    \A j \in Jobs : (InQueue(j) /\ doneCalls = 0) ~> (ran(j) \/ doneCalls > 0)

\* every worker is parked in cv_.wait, a task has just been emplaced in the
\* queue of one of them and the push has not yet called notify_one
C15_Witness ==
    /\ doneCalls = 0
    /\ nthreads_ = 2
    /\ \A w \in Workers : pc[w] = "blocked" /\ w \in cv_[w]
    /\ \E t \in Submitters : spc[t] = "notify"
    /\ \E q \in Queues : tasks_[q] # <<>>

\* the owning thread takes a step of a repeated call of done ()
InDoneAgain == opc # opc' /\ (opc \in {"again_notify", "again_store"} \/ opc' = "again_notify")

\* C16: a call of done () after an earlier call has returned changes
\* nothing: the done latches, the queues, queued_, the exited flags and the
\* set of threads blocked in cv_.wait are the same after each of its steps.
C16_DoneIdempotent ==
    [][InDoneAgain => UNCHANGED <<done_, tasks_, queued_, exited_, cv_>>]_vars

\* C17: queued_ is never below the number of tasks in the queues, it never
\* wraps below zero, and it is at least 1 whenever a thread is about to
\* decrement it (a worker after a pop, a pushing thread after a failed
\* try_push).
C17_CounterLowerBound ==
    /\ queued_ >= size(Queues)
    /\ queued_ >= 0
    /\ (\E w \in Workers : pc[w] = "dec") => queued_ >= 1
    /\ (\E t \in Submitters : spc[t] = "revert") => queued_ >= 1

\* a worker is about to decrement queued_ from 1 for the task it popped
\* while a pushing thread has reverted a refused try_push and is before its
\* next speculative increment
C17_Witness ==
    /\ \E w \in Workers : pc[w] = "dec"
    /\ \E t, u \in Submitters : spc[t] = "inc" /\ sk[t] > 0 /\ spc[u] = "idle"
    /\ queued_ = 1
    /\ size(Queues) = 0

\* C18: a worker inside the blocking pop of a queue whose done latch has
\* been set eventually leaves pop (every thread keeps being scheduled).
C18_BlockedPopReleased ==
    \A w \in 0 .. (MaxThreads - 1) :
        (w \in Workers /\ phase[w] = "pop" /\ done_[w]) ~> (w \notin Workers \/ phase[w] # "pop")

\* the tasks for which some worker has executed run's queued_--
Decremented ==
    {j \in 1 .. njobs :
        ran(j) \/ \E w \in Workers : p[w] = j /\ pc[w] \in {"call", "running"}}

\* C19: (one pushing thread) when push has emplaced its task and when it
\* has returned, every task pushed so far is in exactly one place and
\* queued_ counts exactly the tasks pushed and not yet decremented by a
\* worker: the call added 1. Between attempts the task is still with the
\* pusher, in no queue, and queued_ does not count it. A refused try_push
\* changes no queue and no counter, and the revert takes back 1. A task is
\* emplaced at the back of queue (idx + k) % nthreads_ by try_push, and by
\* the blocking push, which is reached only after all probes failed, at the
\* back of queue idx % nthreads_; idx is current_index_ as read on entry.
C19_SubmitEffect ==
    /\ [](spc[Main] \in {"idle", "notify"} =>
            /\ queued_ = njobs - Cardinality(Decremented)
            /\ \A j \in 1 .. njobs : copies(j) + (IF ran(j) THEN 1 ELSE 0) = 1
            /\ st[Main] = NoJob)
    /\ [](spc[Main] \in {"index_store", "inc", "final_inc"} =>
            /\ queued_ = (njobs - 1) - Cardinality(Decremented)
            /\ st[Main] = njobs
            /\ ~InQueue(njobs))
    /\ [](spc[Main] \in {"push_lock", "push_cs"} => sk[Main] = Attempts * nthreads_)
    /\ [][/\ (spc[Main] = "idle" /\ spc'[Main] # "idle") =>
                idx'[Main] = current_index_
          /\ (spc[Main] = "try_push" /\ spc'[Main] = "revert") =>
                UNCHANGED <<tasks_, queued_, st>>
          /\ (spc[Main] = "revert" /\ spc'[Main] # "revert") =>
                queued_' = queued_ - 1 /\ UNCHANGED <<tasks_, st>>
          /\ (spc[Main] = "try_push_cs" /\ spc'[Main] = "notify") =>
                tasks_' = [tasks_ EXCEPT ![(idx[Main] + sk[Main]) % nthreads_] =
                                            Append(@, st[Main])]
          /\ (spc[Main] = "push_cs" /\ spc'[Main] = "notify") =>
                tasks_' = [tasks_ EXCEPT ![idx[Main] % nthreads_] =
                                            Append(@, st[Main])]]_vars

\* every try_push of the second task was refused and the blocking push has
\* emplaced it
C19_Witness ==
    /\ nthreads_ = 2
    /\ njobs = 2
    /\ spc[Main] = "notify"
    /\ sk[Main] = Attempts * nthreads_
    /\ InQueue(2)

\* C20: (one pushing thread) the j-th call of push since construction, j
\* counted from 0, works with idx = j, and when its first try_push gets the
\* mutex the task is emplaced at the back of queue j % nthreads_ (task
\* number njobs is submission njobs - 1).
C20_RoundRobin ==
    /\ [](spc[Main] # "idle" => idx[Main] = njobs - 1)
    /\ [](spc[Main] = "idle" => current_index_ = njobs)
    /\ [][(spc[Main] = "try_push_cs" /\ spc'[Main] = "notify" /\ sk[Main] = 0) =>
            tasks_' = [tasks_ EXCEPT ![(njobs - 1) % nthreads_] = Append(@, njobs)]]_vars

\* the second task was emplaced in queue 1 of 2 by its first try_push while
\* the first task is still in queue 0
C20_Witness ==
    /\ nthreads_ = 2
    /\ spc[Main] = "notify"
    /\ sk[Main] = 0
    /\ tasks_[0] = <<1>>
    /\ tasks_[1] = <<2>>

\* C21: with several threads calling push, current_index_ never decreases
\* and every call advances it by exactly one: it equals the number of calls
\* made less the calls that have read it and not yet stored the increment.
C21_DispatchCounterAtomic ==
    /\ [](current_index_ =
            njobs - Cardinality({t \in Submitters : spc[t] = "index_store"}))
    /\ [][current_index_' >= current_index_]_vars

\* C22: once a worker's run has returned its exited flag is set and stays
\* set, whatever the other workers write, and a worker's flag is set only
\* by that worker's own assignment.
C22_ExitedFlagsKept ==
    /\ \A w \in Workers : pc[w] = "exited" => w \in exited_
    /\ \A w \in Workers : w \in exited_ => pc[w] = "exited"

\* C23: when reset () returns the pool is as the constructor leaves it:
\* every queue empty with its done latch false and its mutex free, queued_
\* zero, no worker's run returned and every exited flag false.
C23_ResetRestoresInitial ==
    [][(opc = "reset_spawn" /\ opc' = "idle") =>
        /\ tasks_' = [q \in Queues |-> <<>>]
        /\ done_' = [q \in Queues |-> FALSE]
        /\ queued_' = 0
        /\ \A w \in Workers : pc'[w] \notin {"exited", "aborted"}
        /\ exited_' = {}]_vars

\* C24: a done latch that is true stays true: no step of try_pop, try_push,
\* pop, push, set_done, run, push or wait_to_completion makes it false.
C24_DoneLatchSticky ==
    [][\A q \in Queues : done_[q] => done_'[q]]_vars

\* both latches are set, a task pushed after done () has been run by one
\* worker and the other worker's run has returned
C24_Witness ==
    /\ nthreads_ = 2
    /\ \A q \in Queues : done_[q]
    /\ njobs = 2
    /\ late[2]
    /\ ran(2)
    /\ \E w \in Workers : pc[w] = "exited"

\* C25: the blocking pop returns (false, task {}) only from a state in which
\* the queue is empty and its done latch is set; when the queue is not
\* empty as pop tests it with the mutex held, done latch set or not, pop
\* moves out the front task, removes it and returns it.
C25_PopResult ==
    [][\A w \in Workers :
        /\ (pc[w] = "pop_cs" /\ pc'[w] = "finish") =>
              tasks_[w] = <<>> /\ done_[w] /\ p'[w] = NoJob
        /\ (pc[w] = "pop_cs" /\ tasks_[w] # <<>> /\ pc'[w] # "pop_cs") =>
              /\ pc'[w] = "dec"
              /\ p'[w] = Head(tasks_[w])
              /\ tasks_'[w] = Tail(tasks_[w])
        /\ (pc[w] = "pop_cs" /\ pc'[w] = "cv_wait") =>
              tasks_[w] = <<>> /\ ~done_[w]]_vars

\* pop has returned the front task of a queue whose done latch is set
C25_Witness ==
    \E w \in Workers :
        /\ phase[w] = "pop"
        /\ pc[w] = "dec"
        /\ done_[w]
        /\ p[w] # NoJob

\* C26: try_pop and try_push never wait for the mutex: a thread at its
\* try_to_lock can always take its step. A try_push that does not get the
\* mutex returns false with every queue unchanged and the task still with
\* the caller; a try_pop that does not get the mutex, or finds the queue
\* empty, returns no task and changes no queue; a try_pop that succeeds
\* removes exactly the front task and a try_push that succeeds appends
\* exactly its task at the back.
C26_TryVariants ==
    /\ [](\A w \in Workers : pc[w] = "try_pop" => ENABLED try_pop_lock(w))
    /\ [](\A t \in Submitters : spc[t] = "try_push" => ENABLED try_push_lock(t))
    /\ [][\A t \in Submitters :
            LET q == probe(idx[t], sk[t]) IN
            /\ (spc[t] = "try_push" /\ spc'[t] # "try_push" /\ mutex_[q] # NoThread) =>
                  /\ spc'[t] = "revert"
                  /\ UNCHANGED <<tasks_, mutex_>>
                  /\ st'[t] = st[t] /\ st[t] # NoJob
            /\ (spc[t] = "try_push_cs" /\ spc'[t] # "try_push_cs") =>
                  /\ tasks_' = [tasks_ EXCEPT ![q] = Append(@, st[t])]
                  /\ mutex_'[q] = NoThread]_vars
    /\ [][\A w \in Workers :
            LET q == source(w) IN
            /\ (pc[w] = "try_pop" /\ pc'[w] # "try_pop" /\ mutex_[q] # NoThread) =>
                  /\ pc'[w] \notin {"try_pop_cs", "dec"}
                  /\ UNCHANGED <<tasks_, mutex_>>
                  /\ p'[w] = NoJob
            /\ (pc[w] = "try_pop_cs" /\ pc'[w] # "try_pop_cs" /\ tasks_[q] = <<>>) =>
                  /\ pc'[w] # "dec"
                  /\ UNCHANGED tasks_
                  /\ p'[w] = NoJob
            /\ (pc[w] = "try_pop_cs" /\ pc'[w] # "try_pop_cs" /\ tasks_[q] # <<>>) =>
                  /\ pc'[w] = "dec"
                  /\ tasks_' = [tasks_ EXCEPT ![q] = Tail(@)]
                  /\ p'[w] = Head(tasks_[q])]_vars

\* a try_push has been refused the mutex that a worker holds inside try_pop
\* on a queue that is not empty
C26_Witness ==
    \E t \in Submitters : \E w \in Workers :
        /\ spc[t] = "revert"
        /\ pc[w] = "try_pop_cs"
        /\ source(w) = probe(idx[t], sk[t])
        /\ tasks_[source(w)] # <<>>

\* the queues whose mutex thread th holds
held(th) == {q \in Queues : mutex_[q] = {th}}

\* C27: no thread holds the mutexes of two queues; a thread that waits for
\* a mutex (in pop, in task_queue::push, or coming back from cv_.wait)
\* holds none; the thread calling done and wait_to_completion holds none;
\* and the holder of a mutex is inside the critical section of that queue,
\* where its next step is enabled: no thread is blocked by a holder that is
\* itself blocked.
C27_NoLockOrderDeadlock ==
    /\ \A th \in Workers \cup Submitters : Cardinality(held(th)) <= 1
    /\ \A q \in Queues : mutex_[q] # NoThread =>
            \E th \in Workers \cup Submitters : mutex_[q] = {th}
    /\ \A w \in Workers :
        /\ pc[w] \in {"pop_lock", "blocked"} => held(w) = {}
        /\ held(w) # {} =>
            /\ pc[w] \in {"try_pop_cs", "pop_cs", "cv_wait"}
            /\ held(w) = {source(w)}
            /\ ENABLED run(w)
    /\ \A t \in Submitters :
        /\ spc[t] = "push_lock" => held(t) = {}
        /\ held(t) # {} =>
            /\ spc[t] \in {"try_push_cs", "push_cs"}
            /\ ENABLED push(t)

\* both mutexes are held, by a worker and by a pushing thread, while the
\* other worker waits in pop for the mutex of its own queue
C27_Witness ==
    /\ nthreads_ = 2
    /\ \E w, v \in Workers : \E t \in Submitters :
        /\ w # v
        /\ held(w) # {}
        /\ held(t) # {}
        /\ pc[v] = "pop_lock"
        /\ mutex_[v] # NoThread

\* C28: worker w makes at most Attempts * nthreads_ try_pops per scan and
\* at most nthreads_ per round after finish:, probe k on queue
\* (w + k) % nthreads_; it locks, waits and blocks in pop only on queue w;
\* it reaches finish: only from pop returning empty-handed (queue w empty,
\* done latch set); after that it never enters pop again; and run goes on
\* to set the exited flag only from the test of queued_ reading zero.
C28_WorkerStateMachine ==
    /\ [](\A w \in Workers :
            /\ pc[w] \in {"try_pop", "try_pop_cs"} =>
                  /\ phase[w] \in {"scan", "drain"}
                  /\ k[w] < (IF phase[w] = "scan" THEN Attempts * nthreads_ ELSE nthreads_)
            /\ pc[w] \in {"pop_lock", "pop_cs", "cv_wait", "blocked"} =>
                  phase[w] = "pop" /\ source(w) = w
            /\ pc[w] \in {"finish", "exit_load", "exit_store", "exited"} =>
                  phase[w] = "drain"
            /\ \A q \in Queues : w \in cv_[q] => q = w /\ pc[w] = "blocked")
    /\ [][\A w \in Workers :
            /\ (phase[w] # "drain" /\ phase'[w] = "drain") =>
                  pc[w] = "pop_cs" /\ tasks_[w] = <<>> /\ done_[w]
            /\ phase[w] = "drain" => phase'[w] = "drain"
            /\ (pc[w] # "exit_load" /\ pc'[w] = "exit_load") =>
                  pc[w] = "finish" /\ queued_ = 0
            /\ (pc[w] = "try_pop" /\ pc'[w] = "try_pop_cs") =>
                  mutex_'[(w + k[w]) % nthreads_] = {w}]_vars

\* after finish: a worker runs a task that it took from the other queue
C28_Witness ==
    \E w \in Workers :
        /\ nthreads_ = 2
        /\ phase[w] = "drain"
        /\ pc[w] = "running"
        /\ k[w] = 1

\* C29: on a pool that was never reset, a worker that is past finish:, and so
\* every worker whose exited flag is set, has its queue's done_ set; and in
\* the step in which worker w reads queued_ as zero and leaves finish:, no
\* queue holds a task.
C29_NoEarlyExit ==
    /\ [](\A w \in Workers :
            (w \in exited_ \/ pc[w] \in {"finish", "exit_load", "exit_store", "exited"})
                => done_[w])
    /\ [][\A w \in Workers :
            (pc[w] = "finish" /\ pc'[w] = "exit_load") =>
                /\ size(Queues) = 0
                /\ \A j \in Jobs : ~InQueue(j)]_vars

\* a worker has set its flag after both tasks pushed were run
C29_Witness ==
    \E w \in Workers :
        /\ w \in exited_
        /\ pc[w] = "exited"
        /\ done_[w]
        /\ njobs = MaxJobs
        /\ \A j \in 1 .. MaxJobs : runs(j) > 0

\* the future of task j is ready: get () or wait () on it returns
ready(j) == fut[j] \in {"value", "error", "broken"}

\* C30: the shared state of a task's future is written at most once: by the
\* worker whose p.second () is running the task, when the callable returns
\* or raises, or by the destruction of a queue that still holds the task. A
\* ready future is never written again. The future of a task that is in a
\* queue, in the hands of a thread inside push, or popped and not yet run to
\* its end is not ready; a future that is ready with a value or an exception
\* belongs to a task that ran to its end, and one that is ready with
\* broken_promise to a task that never started.
C30_WrittenOnce ==
    /\ [](\A j \in Jobs :
            /\ (InQueue(j) \/ (\E w \in Workers : p[w] = j)
                           \/ (\E t \in Submitters : st[t] = j))
                  => ~ready(j)
            /\ fut[j] \in {"value", "error"} => ran(j) /\ runs(j) = 1
            /\ fut[j] = "broken" => runs(j) = 0 /\ ~InQueue(j))
    /\ [][\A j \in Jobs :
            fut'[j] # fut[j] =>
                \/ /\ fut[j] = "none"
                   /\ j = njobs + 1
                   /\ fut'[j] = "pending"
                \/ /\ fut[j] = "pending"
                   /\ fut'[j] \in {"value", "error"}
                   /\ \E w \in Workers :
                        /\ pc[w] = "running"
                        /\ p[w] = j
                        /\ p'[w] = NoJob
                        /\ \A v \in Workers \ {w} : p[v] # j
                \/ /\ fut[j] = "pending"
                   /\ fut'[j] = "broken"
                   /\ InQueue(j)
                   /\ ~InQueue(j)'
                   /\ opc \in {"members", "reset_clear"}]_vars

\* the destructor has returned: the first task's future was written by the
\* worker that ran it, the second task's by the destruction of its queue
C30_Witness ==
    /\ opc = "destroyed"
    /\ started = <<1>>
    /\ completed = <<1>>
    /\ ready(1)
    /\ fut[2] = "broken"
    /\ late[2]

\* C31: when the destructor has returned, every worker's run has
\* returned, every queue is empty and every task pushed has run to its end.
C31_DestructionDrains ==
    opc = "destroyed" =>
        /\ \A w \in Workers : pc[w] = "exited"
        /\ size(Queues) = 0
        /\ \A j \in 1 .. njobs : ran(j)

\* ------------------------------------- the task_system without finish:
\* The second task_system of the file has the same task_queue, done () and
\* probing loops, but no queued_, no exited_ and no loop after the blocking
\* pop: run returns when pop returns (false, task {}).

\* run: try_pop with the lock held; on success the for loop breaks and
\* p.second () is called
nodrain_try_pop_cs(w) ==
    /\ pc[w] = "try_pop_cs"
    /\ LET q == probe(w, k[w]) IN
       /\ unlock(q)
       /\ IF tasks_[q] = <<>>
          THEN /\ next_probe(w)
               /\ UNCHANGED <<tasks_, p>>
          ELSE /\ p' = [p EXCEPT ![w] = front(tasks_[q])]
               /\ tasks_' = [tasks_ EXCEPT ![q] = pop_front(@)]
               /\ pc' = [pc EXCEPT ![w] = "call"]
               /\ UNCHANGED <<phase, k>>
    /\ UNCHANGED <<nthreads_, cv_, done_, exited_, current_index_, queued_>>
    /\ UNCHANGED <<word, pushVars, ownerVars, jobVars>>

\* run: p = queues_ [id].pop () with the lock held; if (!p.first) return
nodrain_pop_cs(w) ==
    /\ pc[w] = "pop_cs"
    /\ IF must_wait(tasks_[w] = <<>>, done_[w])
       THEN /\ pc' = [pc EXCEPT ![w] = "cv_wait"]
            /\ UNCHANGED <<mutex_, tasks_, p>>
       ELSE IF tasks_[w] = <<>>
       THEN /\ unlock(w)
            /\ pc' = [pc EXCEPT ![w] = "exited"]
            /\ UNCHANGED <<tasks_, p>>
       ELSE /\ unlock(w)
            /\ p' = [p EXCEPT ![w] = front(tasks_[w])]
            /\ tasks_' = [tasks_ EXCEPT ![w] = pop_front(@)]
            /\ pc' = [pc EXCEPT ![w] = "call"]
    /\ UNCHANGED <<nthreads_, cv_, done_, exited_, current_index_, queued_>>
    /\ UNCHANGED <<phase, k, word, pushVars, ownerVars, jobVars>>

run_nodrain(w) ==
    \/ try_pop_lock(w)
    \/ nodrain_try_pop_cs(w)
    \/ run_call(w)
    \/ run_return(w)
    \/ pop_lock(w)
    \/ nodrain_pop_cs(w)
    \/ pop_wait(w)
    \/ pop_wake(w)

\* push: current_index_++, the store; the for loop of try_push follows
nodrain_index_store(t) ==
    /\ spc[t] = "index_store"
    /\ current_index_' = idx[t] + 1
    /\ spc' = [spc EXCEPT ![t] = "try_push"]
    /\ UNCHANGED <<nthreads_, tasks_, mutex_, cv_, done_, exited_, queued_>>
    /\ UNCHANGED <<runVars, idx, sk, st, ownerVars, jobVars>>

\* push: try_push's try_to_lock; without the lock it returns false and the
\* loop goes to its next probe or, after the last one, to the blocking push
nodrain_try_push_lock(t) ==
    /\ spc[t] = "try_push"
    /\ LET q == probe(idx[t], sk[t]) IN
       IF mutex_[q] = NoThread
       THEN /\ lock(q, t)
            /\ spc' = [spc EXCEPT ![t] = "try_push_cs"]
            /\ UNCHANGED sk
       ELSE /\ sk' = [sk EXCEPT ![t] = @ + 1]
            /\ spc' = [spc EXCEPT ![t] =
                        IF sk[t] + 1 < Attempts * nthreads_
                        THEN "try_push" ELSE "push_lock"]
            /\ UNCHANGED mutex_
    /\ UNCHANGED <<nthreads_, tasks_, cv_, done_, exited_, current_index_, queued_>>
    /\ UNCHANGED <<runVars, idx, st, ownerVars, jobVars>>

push_nodrain(t) ==
    \/ nodrain_index_store(t)
    \/ nodrain_try_push_lock(t)
    \/ try_push_cs(t)
    \/ push_lock(t)
    \/ push_cs(t)
    \/ push_notify(t)

\* A client of that pool: one thread pushes tasks and, when its pushes have
\* returned, calls done (); nothing is pushed after that
NextNoDrain ==
    \/ \E w \in Workers : run_nodrain(w)
    \/ \E w \in Workers : spurious_wake(w)
    \/ doneCalls = 0 /\ push_call(Main, {"value"})
    \/ push_nodrain(Main)
    \/ Joined /\ done_call
    \/ done

SpecNoDrain == Init /\ [][NextNoDrain]_vars

\* Scheduling of that pool's threads, as in Fairness
FairNoDrain ==
    /\ Init
    /\ [][NextNoDrain]_vars
    /\ \A w \in 0 .. (MaxThreads - 1) : WF_vars(w \in Workers /\ run_nodrain(w))
    /\ WF_vars(push_nodrain(Main))
    /\ WF_vars(done)

\* every worker's run has returned and a task is in a queue
Stranded ==
    /\ \A w \in Workers : pc[w] = "exited"
    /\ \E j \in Jobs : InQueue(j)

====
